---- MODULE Spec2Model ----
(***************************************************************************)
(* Fuel Margin Dashboard (reggie-db/apps-workshop).                        *)
(*                                                                         *)
(* Part I   models normalize_df of src/sql-data/app.py as an operator on   *)
(*          small data frames and applies it (twice) to every raw frame of *)
(*          a bounded family (SpecNormalize).                              *)
(* Part II  models fetch_table and connect_to_warehouse of                 *)
(*          src/sql-data/app.py statement by statement, called directly    *)
(*          with arguments of a bounded family (SpecFetch) and called by   *)
(*          the update_graphs callback of the warehouse variant; and the   *)
(*          update_graphs callback of the synthetic variant                *)
(*          (src/generated-data/app.py) (Spec).                            *)
(* Part III models the three chart builders (make_graph_component of       *)
(*          src/sql-data/app.py, make_graph of src/generated-data/app.py   *)
(*          and of src/generated-data/app-shiny.py) applied to a bounded   *)
(*          family of tables (SpecChart).                                  *)
(* Part IV  models the callbacks of the Dash variants as the browser       *)
(*          dispatches them: the URL round trip (SpecUrl), overlapping     *)
(*          refresh cycles (SpecOverlap) and the callback graph (SpecUI).  *)
(*                                                                         *)
(* A string whose characters matter (a column name, a table identifier) is *)
(* a sequence of one-character strings; a date string is a TLA+ string     *)
(* that ToDatetime parses through DateTable.                               *)
(***************************************************************************)
EXTENDS Integers, Sequences, FiniteSets, TLC

VARIABLES
    \* ---- Part I: the normalize_df harness
    npc,        \* "idle" | "raw" | "once" | "twice"
    raw_df,     \* the raw data frame handed to normalize_df
    norm1,      \* outcome of normalize_df(raw_df)
    norm2,      \* outcome of normalize_df(norm1.df)
    \* ---- Part II: the dashboard
    variant,    \* the app that runs: "warehouse" | "generated" | "none"
    token_cfg,  \* DBX_CONFIG.token, resolved when the module is loaded
    warehouse,  \* the stored tables, by identifier
    cyc,        \* per request: the frame of the running call
    conns,      \* the warehouse connections that are open
    \* ---- Part III: the chart builder harness
    chart_in,   \* the builder, table and title of the call
    chart_out,  \* the figure the builder returned
    \* ---- Part IV: the page in the browser
    url_search,   \* dcc.Location(id="url").search
    start_picker, \* DatePickerSingle(id="start-date-picker").date
    end_picker,   \* DatePickerSingle(id="end-date-picker").date
    pending,      \* the callbacks the browser has yet to request
    chain,        \* the callbacks requested since the last user or timer event
    origin        \* that event, whether the page was at rest when it came, and
                  \* (SpecUrl) the pickers and the query string as they were

vars == <<npc, raw_df, norm1, norm2, variant, token_cfg, warehouse, cyc, conns,
          chart_in, chart_out,
          url_search, start_picker, end_picker, pending, chain, origin>>

normalizeVars == <<npc, raw_df, norm1, norm2>>
appVars       == <<variant, token_cfg, warehouse, cyc, conns>>
chartVars     == <<chart_in, chart_out>>
uiVars        == <<url_search, start_picker, end_picker, pending, chain, origin>>

\* ------------------------------------------------------------------ bounds

MaxNameLen == 2     \* longest enumerated raw column name
MaxCols    == 2     \* most columns of an enumerated raw frame
MaxRows    == 2     \* most rows of an enumerated raw frame
MaxTextLen == 2 \* characters of an enumerated picker text
MaxChain   == 6 \* callbacks requested after one user or timer event

\* ------------------------------------------------------- characters, names

UpperCase == <<"A","B","C","D","E","F","G","H","I","J","K","L","M",
               "N","O","P","Q","R","S","T","U","V","W","X","Y","Z">>
LowerCase == <<"a","b","c","d","e","f","g","h","i","j","k","l","m",
               "n","o","p","q","r","s","t","u","v","w","x","y","z">>
Digits    == {"0","1","2","3","4","5","6","7","8","9"}

Range(s) == {s[i] : i \in DOMAIN s}

\* the character class [0-9a-zA-Z_] of the regular expression
IsWordChar(c) == c \in Range(UpperCase) \cup Range(LowerCase) \cup Digits \cup {"_"}

\* what str.strip() removes at either end
IsWhitespace(c) == c \in {" ", "\t", "\n"}

\* str.lower() on one character
LowerChar(c) ==
    IF \E i \in DOMAIN UpperCase : UpperCase[i] = c
    THEN LowerCase[CHOOSE i \in DOMAIN UpperCase : UpperCase[i] = c]
    ELSE c

\* the plausible slip: the lower-casing step is left out
StrKeepCase(s) == s

\* .str.lower()
StrLower(s) == [i \in 1..Len(s) |-> LowerChar(s[i])]

\* .str.strip()
StrStrip(s) ==
    LET keep == {i \in 1..Len(s) : ~IsWhitespace(s[i])}
        lo   == CHOOSE i \in keep : \A j \in keep : i <= j
        hi   == CHOOSE i \in keep : \A j \in keep : j <= i
    IN  IF keep = {} THEN <<>> ELSE SubSeq(s, lo, hi)

\* .str.replace(" ", "_")
StrReplaceSpace(s) == [i \in 1..Len(s) |-> IF s[i] = " " THEN "_" ELSE s[i]]

\* the plausible slip: the illegal character is substituted, not deleted
StrSubstituteNonWord(s) == [i \in 1..Len(s) |-> IF IsWordChar(s[i]) THEN s[i] ELSE " "]

\* .str.replace(r"[^0-9a-zA-Z_]", "", regex=True)
StrDeleteNonWord(s) == SelectSeq(s, IsWordChar)

\* the plausible slip: spaces are replaced before the name is stripped
RenameColumnReplaceFirst(name) ==
    StrDeleteNonWord(StrStrip(StrReplaceSpace(StrLower(name))))

\* the chain applied to every column name (app.py lines 60-65)
RenameColumn(name) ==
    StrDeleteNonWord(StrReplaceSpace(StrStrip(StrLower(name))))

week == <<"w","e","e","k">>

\* ------------------------------------------------------------------ dates

\* the calendar days the model knows, as %Y-%m-%d text with their day number
\* (2024-01-01 is day 0, a Monday)
IsoDates ==
    { <<"2024-01-01", 0>>, <<"2024-01-02", 1>>, <<"2024-01-03", 2>>,
      <<"2024-01-04", 3>>, <<"2024-01-05", 4>>, <<"2024-01-07", 6>>,
      <<"2024-01-21", 20>>, <<"2025-05-31", 516>> }

\* the same days in another spelling pandas parses
OtherDateFormats == { <<"2024/01/03", 2>> }

DateTable == IsoDates \cup OtherDateFormats

NaT == -1

\* pd.to_datetime on one value: the day, or NaT when the value is no date (None,
\* the empty string, any other text): the caller then raises
ToDatetime(s) ==
    IF \E p \in DateTable : p[1] = s
    THEN (CHOOSE p \in DateTable : p[1] = s)[2]
    ELSE NaT

\* Timestamp.strftime("%Y-%m-%d")
StrfTime(d) == (CHOOSE p \in IsoDates : p[2] = d)[1]

\* ------------------------------------------------------------ data frames

\* A data frame: the column labels in order, the name of the index (empty for the
\* default RangeIndex) and the rows in order; a row is its index value (key) and
\* one cell per column.
Frame(cols, iname, rows) == [columns |-> cols, index_name |-> iname, rows |-> rows]

RemoveAt(s, j) == [i \in 1..(Len(s) - 1) |-> IF i < j THEN s[i] ELSE s[i + 1]]

IsSortedByKey(rows) ==
    \A i, j \in 1..Len(rows) : i < j => rows[i].key <= rows[j].key

\* the plausible slip: the index is set but the frame is never sorted
SortIndexSkipped(rows) == {rows}

\* df.sort_index(): every arrangement of the rows that is non-decreasing by key
\* (the default sort kind is not stable, so rows of equal key may come out in
\* either order)
SortIndex(rows) ==
    LET n     == Len(rows)
        perms == {p \in [1..n -> 1..n] : \A i, j \in 1..n : i # j => p[i] # p[j]}
    IN  {r \in {[i \in 1..n |-> rows[p[i]]] : p \in perms} : IsSortedByKey(r)}

\* df.columns = df.columns.str.lower()...  (app.py lines 60-65)
RenameColumns(df) ==
    [df EXCEPT !.columns = [i \in 1..Len(df.columns) |-> RenameColumn(df.columns[i])]]

\* the outcomes of normalize_df(df): ok with the returned frame, or raised, with
\* the frame as the failed call leaves it (mutated in place)
NormalizeDf(df) ==
    LET r    == RenameColumns(df)
        hits == {j \in 1..Len(r.columns) : r.columns[j] = week}
        j    == CHOOSE k \in hits : TRUE
    IN  IF hits = {}
        THEN {[ok |-> TRUE, err |-> "", df |-> r]}
        ELSE IF Cardinality(hits) > 1
        \* df["week"] is then a frame and pd.to_datetime refuses duplicate keys
        THEN {[ok |-> FALSE, err |-> "ValueError: duplicate keys", df |-> r]}
        ELSE IF \E i \in 1..Len(r.rows) : ToDatetime(r.rows[i].vals[j]) = NaT
        THEN {[ok |-> FALSE, err |-> "DateParseError", df |-> r]}
        ELSE LET keyed == [i \in 1..Len(r.rows) |->
                             [key  |-> ToDatetime(r.rows[i].vals[j]),
                              vals |-> RemoveAt(r.rows[i].vals, j)]]
             IN  {[ok |-> TRUE, err |-> "",
                   df |-> Frame(RemoveAt(r.columns, j), week, s)] : s \in SortIndex(keyed)}

\* ------------------------------------------------- the enumerated raw frames

Alphabet == {"A", "a", "1", "_", " ", "-", "\t"}

SeqsUpTo(S, n) == UNION {[1..k -> S] : k \in 0..n}

ShortNames == SeqsUpTo(Alphabet, MaxNameLen)

\* names around `week`, and the names of the documented example
WeekNames ==
    { week,
      <<" ","W","e","e","k"," ">>,
      <<"W","E","E","K">>,
      <<"w","e","-","e","k">>,
      <<"w","e"," ","e","k">>,
      <<"w","e","e","k","_">> }

AllHives    == <<"A","l","l"," ","H","i","v","e","s">>
RetailMinus == <<"R","e","t","a","i","l","-","M","i","n","u","s","!">>

TableNames ==
    { week, <<" ","W","e","e","k"," ">>, <<"a"," ","b">>, <<"a","_","b">>, <<"a">> }

\* the cells of a raw frame: the first column holds any of Cells, the further
\* columns share one of OtherCells
Cells      == {"2024-01-01", "2024-01-02", "n/a"}
OtherCells == {"2024-01-01", "n/a"}

\* the raw frame with column labels c whose row i holds p[i][1] in the first
\* column and p[i][2] in the others, under the default RangeIndex
RawFrame(c, p) ==
    Frame(c, <<>>,
          [i \in 1..Len(p) |->
              [key |-> i - 1,
               vals |-> [j \in 1..Len(c) |-> IF j = 1 THEN p[i][1] ELSE p[i][2]]]])

ExampleFrame ==
    Frame(<<(<<" ","W","e","e","k"," ">>), AllHives, RetailMinus>>, <<>>,
          <<[key |-> 0, vals |-> <<"2024-01-02", "2024-01-01", "n/a">>],
            [key |-> 1, vals |-> <<"2024-01-01", "2024-01-02", "n/a">>]>>)


\* ================================================================ Part II

\* Python's None, and `not v` for a value that is None or a string
None == "<None>"

Falsy(v) == v = None \/ v = ""

default_start == "2024-01-01"
default_end   == "2025-05-31"

\* ------------------------------------------------------ tables and panels

gallons            == <<"g","a","l","l","o","n","s">>
net_margin         == <<"n","e","t","_","m","a","r","g","i","n">>
market_pricing     == <<"m","a","r","k","e","t","_","p","r","i","c","i","n","g">>
transactions       == <<"t","r","a","n","s","a","c","t","i","o","n","s">>
margin_components  == <<"m","a","r","g","i","n","_","c","o","m","p","o","n","e","n","t","s">>
market_price_delta == <<"m","a","r","k","e","t","_","p","r","i","c","e","_","d","e","l","t","a">>

\* update_graphs of the warehouse variant: the six fetch_table calls in statement
\* order, each with its source line and the title its chart gets
Panels ==
    << [table |-> gallons,            line |-> 236, title |-> "Gallons"],
       [table |-> net_margin,         line |-> 237, title |-> "Net Margin"],
       [table |-> market_pricing,     line |-> 238, title |-> "Market Pricing"],
       [table |-> transactions,       line |-> 239, title |-> "Transactions"],
       [table |-> margin_components,  line |-> 240, title |-> "Margin Impacting Components"],
       [table |-> market_price_delta, line |-> 241, title |-> "Market Price Delta"] >>

PanelTables == {Panels[i].table : i \in 1..Len(Panels)}

\* the columns write_df stores for a table: `week` (the renamed index) and, of
\* the generator's columns, the ones the model keeps
StoredColumns(t) ==
    IF t = gallons THEN <<week, <<"C","C","C">>, <<"O","v","e","r","/","S","h","o","r","t">>>>
    ELSE IF t = margin_components THEN <<week, <<"C","o","m","p","o","n","e","n","t"," ","A">>>>
    ELSE <<week, <<"C","C","C">>>>

\* the stored rows, in storage order; `text` is what the driver hands back for
\* the week cell. In a corrupt table the week of one row comes back as text that
\* is no date.
StoredRows(t, corrupt) ==
    LET n == Len(StoredColumns(t)) - 1
    IN  << [day |-> 3, text |-> IF corrupt THEN "n/a" ELSE "2024-01-04",
            vals |-> [j \in 1..n |-> "num"]],
           [day |-> 1, text |-> "2024-01-02", vals |-> [j \in 1..n |-> "num"]] >>

Warehouse(bad) ==
    [t \in PanelTables |->
        [columns |-> StoredColumns(t), rows |-> StoredRows(t, t \in bad)]]

Warehouses == {Warehouse({}), Warehouse({transactions})}

\* the query text of fetch_table, by its three interpolated parts
Query(table, start, end) == [table |-> table, start |-> start, end |-> end]

NoQuery == Query(<<>>, "", "")

NoFrame == Frame(<<>>, <<>>, <<>>)

\* what the warehouse answers to the query: the rows of the table whose week is
\* BETWEEN DATE(start) AND DATE(end), ORDER BY week, as pd.read_sql returns them
\* (default RangeIndex, the week cell first)
ExecuteQuery(wh, q) ==
    LET t     == wh[q.table]
        lo    == ToDatetime(q.start)
        hi    == ToDatetime(q.end)
        InRange(r) == lo <= r.day /\ r.day <= hi
        hit   == SelectSeq(t.rows, InRange)
        keyed == [i \in 1..Len(hit) |->
                    [key |-> hit[i].day, vals |-> <<hit[i].text>> \o hit[i].vals]]
    IN  {Frame(t.columns, <<>>, [i \in 1..Len(s) |-> [key |-> i - 1, vals |-> s[i].vals]])
            : s \in SortIndex(keyed)}

\* ---------------------------------------------------------------- charts

IsEmpty(df) == Len(df.columns) = 0 \/ Len(df.rows) = 0      \* df.empty

Chart(title, placeholder, annotation, series) ==
    [title |-> title, placeholder |-> placeholder, annotation |-> annotation,
     series |-> series]

LineSeries(df) ==
    [j \in 1..Len(df.columns) |->
        [name |-> df.columns[j],
         x    |-> [i \in 1..Len(df.rows) |-> df.rows[i].key],
         y    |-> [i \in 1..Len(df.rows) |-> df.rows[i].vals[j]]]]

\* the plausible slip: no placeholder branch, an empty frame is plotted as is
MakeGraphComponentNoPlaceholder(df, title) == Chart(title, FALSE, "", LineSeries(df))

\* make_graph_component (warehouse variant)
MakeGraphComponent(df, title) ==
    IF IsEmpty(df) \/ Len(df.rows) = 0
    THEN Chart(title, TRUE, "No data for selected date range", <<>>)
    ELSE Chart(title, FALSE, "", LineSeries(df))

\* make_graph (synthetic variant, app.py)
MakeGraph(df, title) ==
    IF IsEmpty(df)
    THEN Chart(title, TRUE, "No data for selected date range", <<>>)
    ELSE Chart(title, FALSE, "", LineSeries(df))

NoOutput == [kind |-> "none", charts |-> <<>>, msg |-> <<>>]

Graphs(charts) == [kind |-> "graphs", charts |-> charts, msg |-> <<>>]

ErrorBanner(prefix, e) == [kind |-> "error", charts |-> <<>>, msg |-> <<prefix, e>>]

\* ------------------------------------------------------- the call frames

Cycles == {1}

Tokens == {None, "", "cfg-token"}

Headers == {None, "", "hdr-token"}

\* what a date picker (or a caller of fetch_table) can hand over
PickerValues ==
    {None, "", "n/a", "2024-01-01", "2024/01/03", "2024-01-05", "2024-01-07",
     "2024-01-21"}

\* the identifiers fetch_table is called with directly
FetchIdentifiers ==
    {gallons, transactions, <<"n","o","p","e">>, <<"g","a","l","l","o","n","s"," ","-","-">>, <<"a",".","b">>}

IdleCall ==
    [pc         |-> "idle",
     caller     |-> "",
     args       |-> <<None, None>>,     \* the dates as handed to the callback
     start_date |-> None,
     end_date   |-> None,
     header     |-> None,               \* x-forwarded-access-token of the request
     k          |-> 0,                  \* the panel being fetched
     table_name |-> <<>>,
     query      |-> NoQuery,            \* the query text, once built
     printed    |-> <<>>,               \* the query texts printed by this call
     sent       |-> <<>>,               \* the query texts sent to the warehouse
     df         |-> NoFrame,            \* what pd.read_sql returned
     dfs        |-> <<>>,               \* the frames fetch_table returned so far
     result     |-> NoFrame,            \* the frame a direct call returned
     acquired   |-> 0,                  \* connections opened by the current fetch
     tokens     |-> <<>>,               \* the access tokens the call connected with
     exc        |-> "",                 \* the exception in flight
     exc_line   |-> 0,                  \* the statement of update_graphs it left
     out        |-> NoOutput]

\* the plausible slip: the failure of one table is recorded and the cycle goes
\* on with the next table
RaiseAndFetchNext(f, e) ==
    IF f.caller = "update_graphs" /\ f.k < Len(Panels)
    THEN [f EXCEPT !.pc = "query", !.k = f.k + 1, !.exc = e,
                   !.table_name = Panels[f.k + 1].table,
                   !.dfs = Append(f.dfs, Frame(<<>>, <<>>, <<>>)),
                   !.query = Query(<<>>, "", ""),
                   !.df = Frame(<<>>, <<>>, <<>>), !.acquired = 0]
    ELSE [f EXCEPT !.pc = "raised", !.exc = e,
                   !.exc_line = IF f.caller = "update_graphs" THEN Panels[f.k].line ELSE 0]

\* an exception leaves fetch_table
Raise(f, e) ==
    [f EXCEPT !.pc = "raised", !.exc = e,
              !.exc_line = IF f.caller = "update_graphs" THEN Panels[f.k].line ELSE 0]

\* fetch_table returns frame d to its caller
Return(f, d) ==
    IF f.caller = "update_graphs"
    THEN IF f.k < Len(Panels)
         THEN [f EXCEPT !.pc = "query", !.k = f.k + 1,
                        !.table_name = Panels[f.k + 1].table,
                        !.dfs = Append(f.dfs, d), !.query = NoQuery,
                        !.df = NoFrame, !.acquired = 0]
         ELSE [f EXCEPT !.pc = "render", !.dfs = Append(f.dfs, d), !.df = NoFrame]
    ELSE [f EXCEPT !.pc = "returned", !.result = d, !.df = NoFrame]

\* --------------------------------------------------------- fetch_table

\* a direct call fetch_table(table_name, start_date, end_date) inside a request
\* that carries `header`
CallFetchTable(c, table_name, start_date, end_date, header) ==
    /\ variant = "fetch_table"
    /\ cyc[c].pc = "idle"
    /\ cyc' = [cyc EXCEPT ![c] =
                  [IdleCall EXCEPT !.pc = "query", !.caller = "direct",
                                   !.args = <<start_date, end_date>>,
                                   !.start_date = start_date, !.end_date = end_date,
                                   !.header = header, !.table_name = table_name]]
    /\ UNCHANGED <<normalizeVars, chartVars, uiVars, variant, token_cfg, warehouse, conns>>

\* lines 78-87: format the two dates, build the query text, print it
BuildQuery(c) ==
    LET f == cyc[c]
        s == ToDatetime(f.start_date)
        e == ToDatetime(f.end_date)
        q == Query(f.table_name, StrfTime(s), StrfTime(e))
    IN  /\ f.pc = "query"
        /\ cyc' = [cyc EXCEPT ![c] =
                      IF s = NaT \/ e = NaT
                      THEN Raise(f, "DateParseError")
                      ELSE [f EXCEPT !.pc = "connect", !.query = q,
                                     !.printed = Append(f.printed, q)]]
        /\ UNCHANGED <<normalizeVars, chartVars, uiVars, variant, token_cfg, warehouse, conns>>

\* the plausible slip: the process-level token wins over the request header
UserTokenConfigFirst(header, cfg) == IF Falsy(cfg) THEN header ELSE cfg

\* connect_to_warehouse, lines 42-44: the credential
UserToken(header, cfg) == IF Falsy(header) THEN cfg ELSE header

\* line 88, connect_to_warehouse(): no token raises before any connection is
\* opened; otherwise dbsql.connect opens a connection or raises
Connect(c) ==
    LET f          == cyc[c]
        user_token == UserToken(f.header, token_cfg)
    IN  /\ f.pc = "connect"
        /\ \E reachable \in BOOLEAN :
              IF Falsy(user_token)
              THEN /\ cyc' = [cyc EXCEPT ![c] = Raise(f, "No user token found")]
                   /\ conns' = conns
              ELSE IF reachable
              THEN /\ cyc' = [cyc EXCEPT ![c] =
                                 [f EXCEPT !.pc = "read", !.acquired = f.acquired + 1,
                                           !.tokens = Append(f.tokens, user_token)]]
                   /\ conns' = conns \cup {[owner |-> c, k |-> f.k, token |-> user_token]}
              ELSE /\ cyc' = [cyc EXCEPT ![c] = Raise(f, "ConnectionError")]
                   /\ conns' = conns
        /\ UNCHANGED <<normalizeVars, chartVars, uiVars, variant, token_cfg, warehouse>>

\* line 89, pd.read_sql(query, conn): the text goes to the warehouse, which
\* answers with the rows or with an error (always an error for a table it does
\* not have); an exception stays in flight while the with block is left
ReadSql(c) ==
    LET f == cyc[c]
    IN  /\ f.pc = "read"
        /\ \E answered \in BOOLEAN :
              IF answered /\ f.query.table \in DOMAIN warehouse
              THEN \E d \in ExecuteQuery(warehouse, f.query) :
                      cyc' = [cyc EXCEPT ![c] =
                                 [f EXCEPT !.pc = "exit", !.df = d,
                                           !.sent = Append(f.sent, f.query)]]
              ELSE cyc' = [cyc EXCEPT ![c] =
                              [f EXCEPT !.pc = "exit", !.exc = "QueryError",
                                        !.sent = Append(f.sent, f.query)]]
        /\ UNCHANGED <<normalizeVars, chartVars, uiVars, variant, token_cfg, warehouse, conns>>

\* the plausible slip: conn.close() after read_sql instead of a with block
CloseOnSuccessOnly(open, c, raised) ==
    IF raised THEN open ELSE {x \in open : x.owner # c}

\* the plausible slip: one connection shared by all requests, closed by whoever
\* leaves a with block
CloseSharedConnection(open, c, raised) == {}

\* Connection.__exit__: the connection of the with block is closed, whether or
\* not an exception is in flight
CloseOnExit(open, c, raised) == {x \in open : x.owner # c}

\* lines 88-89, leaving the with block
ExitWith(c) ==
    LET f == cyc[c]
    IN  /\ f.pc = "exit"
        /\ conns' = CloseOnExit(conns, c, f.exc # "")
        /\ cyc' = [cyc EXCEPT ![c] =
                      IF f.exc # "" THEN Raise(f, f.exc)
                      ELSE [f EXCEPT !.pc = "normalize"]]
        /\ UNCHANGED <<normalizeVars, chartVars, uiVars, variant, token_cfg, warehouse>>

\* line 90: return normalize_df(df)
NormalizeReturn(c) ==
    LET f == cyc[c]
    IN  /\ f.pc = "normalize"
        /\ \E r \in NormalizeDf(f.df) :
              cyc' = [cyc EXCEPT ![c] =
                         IF r.ok THEN Return(f, r.df) ELSE Raise(f, r.err)]
        /\ UNCHANGED <<normalizeVars, chartVars, uiVars, variant, token_cfg, warehouse, conns>>

\* ------------------------------------- update_graphs, warehouse variant

\* the plausible slip: the try block starts after the fetches
InTryRenderOnly(line) == line \in 243..255

\* the statements the try block of update_graphs encloses (lines 235-256)
InTry(line) == line \in 236..255

\* lines 225-234: the callback starts on a date change or an interval tick; a
\* date that is None or empty is replaced by its default
UpdateGraphs(c, start_date, end_date, header) ==
    /\ variant = "warehouse"
    /\ cyc[c].pc = "idle"
    /\ cyc' = [cyc EXCEPT ![c] =
                  [IdleCall EXCEPT
                      !.pc = "query", !.caller = "update_graphs",
                      !.args = <<start_date, end_date>>,
                      !.start_date = IF Falsy(start_date) THEN default_start ELSE start_date,
                      !.end_date = IF Falsy(end_date) THEN default_end ELSE end_date,
                      !.header = header, !.k = 1, !.table_name = Panels[1].table]]
    /\ UNCHANGED <<normalizeVars, chartVars, variant, token_cfg, warehouse, conns>>

\* lines 243-255: the six charts
Render(c) ==
    LET f == cyc[c]
    IN  /\ f.pc = "render"
        /\ cyc' = [cyc EXCEPT ![c] =
                      [f EXCEPT !.pc = "done",
                                !.out = Graphs([i \in 1..Len(Panels) |->
                                            MakeGraphComponent(f.dfs[i], Panels[i].title)])]]
        /\ UNCHANGED <<normalizeVars, chartVars, uiVars, variant, token_cfg, warehouse, conns>>

\* lines 256-259: an exception raised inside the try block becomes the error
\* banner; one raised outside leaves the callback unhandled
Except(c) ==
    LET f == cyc[c]
    IN  /\ f.pc = "raised"
        /\ f.caller = "update_graphs"
        /\ cyc' = [cyc EXCEPT ![c] =
                      IF InTry(f.exc_line)
                      THEN [f EXCEPT !.pc = "done",
                                     !.out = ErrorBanner("Error loading data: ", f.exc)]
                      ELSE [f EXCEPT !.pc = "crashed"]]
        /\ UNCHANGED <<normalizeVars, chartVars, uiVars, variant, token_cfg, warehouse, conns>>

\* the callback is over: its return value (or, unhandled, the failure) has gone
\* to the browser and the request ends
Respond(c) ==
    /\ cyc[c].pc \in {"done", "crashed"}
    /\ cyc' = [cyc EXCEPT ![c] = IdleCall]
    /\ UNCHANGED <<normalizeVars, chartVars, uiVars, variant, token_cfg, warehouse, conns>>

\* ------------------------------------- update_graphs, synthetic variant

Sunday   == 6       \* the weekday the "2W" frequency is anchored on (Monday is 0)
TwoWeeks == 14

\* pd.date_range(start=s, end=e, freq="2W"): the first Sunday on or after s, then
\* every second Sunday up to e
DateRange2W(s, e) ==
    LET first == s + (Sunday - (s % 7))
        n     == IF first > e THEN 0 ELSE ((e - first) \div TwoWeeks) + 1
    IN  [i \in 1..n |-> first + TwoWeeks * (i - 1)]

\* data.py: the generators, by the title of their panel and their column labels
GenPanels ==
    << [title |-> "Liters",
        columns |-> <<"All Hives 2025-03-20", "Detlor Off", "CCC", "Retail Minus",
                      "Over/Short", "Funded">>],
       [title |-> "Net Margin",
        columns |-> <<"All Hives", "Detlor Off", "Retail Minus", "CCC", "Funded">>],
       [title |-> "Market Pricing",
        columns |-> <<"Independent Gallon-Weighted", "Detlor Off Gallon-Weighted",
                      "CCC Gallon-Weighted", "Retail Minus Gallon-Weighted",
                      "TIA Gallon-Weighted">>],
       [title |-> "Transactions",
        columns |-> <<"All Hives", "Detlor Off", "Retail Minus", "CCC", "Over/Short",
                      "Funded">>],
       [title |-> "Margin Impacting Components",
        columns |-> <<"Component A", "Component B">>],
       [title |-> "Market Price Delta",
        columns |-> <<"Independent Delta", "Detlor Off Delta", "Retail Minus Delta",
                      "CCC Delta", "TIA Delta">>] >>

\* generate_*(weeks): one numeric value per column and week, indexed by the weeks
Generate(columns, weeks) ==
    Frame(columns, <<>>,
          [i \in 1..Len(weeks) |->
              [key |-> weeks[i], vals |-> [j \in 1..Len(columns) |-> "num"]]])

\* the statements the try block of the synthetic update_graphs encloses
GenInTry(line) == line \in 165..203

\* update_graphs of generated-data/app.py, lines 159-207, as one step
UpdateGraphsGenerated(c, start_date, end_date) ==
    LET dflt  == start_date = None \/ end_date = None
        sd    == IF dflt THEN default_start ELSE start_date
        ed    == IF dflt THEN default_end ELSE end_date
        s     == ToDatetime(sd)
        e     == ToDatetime(ed)
        weeks == DateRange2W(s, e)
        f     == [IdleCall EXCEPT !.caller = "update_graphs",
                                  !.args = <<start_date, end_date>>,
                                  !.start_date = sd, !.end_date = ed]
    IN  /\ variant = "generated"
        /\ cyc[c].pc = "idle"
        /\ cyc' = [cyc EXCEPT ![c] =
              IF s = NaT \/ e = NaT
              THEN IF GenInTry(165)
                   THEN [f EXCEPT !.pc = "done", !.exc = "DateParseError", !.exc_line = 165,
                                  !.out = ErrorBanner("Error generating data: ", "DateParseError")]
                   ELSE [f EXCEPT !.pc = "crashed", !.exc = "DateParseError", !.exc_line = 165]
              ELSE IF Len(weeks) = 0
              THEN [f EXCEPT !.pc = "done",
                             !.dfs = [i \in 1..Len(GenPanels) |-> NoFrame],
                             !.out = Graphs([i \in 1..Len(GenPanels) |->
                                                MakeGraph(NoFrame, GenPanels[i].title)])]
              ELSE [f EXCEPT !.pc = "done",
                             !.dfs = [i \in 1..Len(GenPanels) |->
                                         Generate(GenPanels[i].columns, weeks)],
                             !.out = Graphs([i \in 1..Len(GenPanels) |->
                                         MakeGraph(Generate(GenPanels[i].columns, weeks),
                                                   GenPanels[i].title)])]]
        /\ UNCHANGED <<normalizeVars, chartVars, variant, token_cfg, warehouse, conns>>

\* ------------------------------------------------------------------ specs

NoOutcome == [ok |-> FALSE, err |-> "not run", df |-> NoFrame]

NormalizeIdle ==
    /\ npc = "idle"
    /\ raw_df = NoFrame
    /\ norm1 = NoOutcome
    /\ norm2 = NoOutcome

AppIdle ==
    /\ variant = "none"
    /\ token_cfg = None
    /\ warehouse = Warehouse({})
    /\ cyc = [c \in Cycles |-> IdleCall]
    /\ conns = {}

\* no chart builder called
NoChart == Chart("", FALSE, "not built", <<>>)

ChartIdle ==
    /\ chart_in = [builder |-> "none", df |-> NoFrame, title |-> ""]
    /\ chart_out = NoChart

\* a page nobody has opened
UiIdle ==
    /\ url_search = <<>>
    /\ start_picker = <<>>
    /\ end_picker = <<>>
    /\ pending = {}
    /\ chain = <<>>
    /\ origin = [event |-> "none", at_rest |-> TRUE]

\* ---- SpecNormalize: normalize_df on every enumerated raw frame, then on its
\* own result

\* every one-column frame over the short names and the names around `week`,
\* every frame of up to MaxCols columns over TableNames, and the documented
\* example
InitNormalize ==
    /\ npc = "raw"
    /\ \/ \E n \in 0..MaxRows :
             \E name \in ShortNames \cup WeekNames, p \in [1..n -> Cells \X {"n/a"}] :
                 raw_df = RawFrame(<<name>>, p)
       \/ \E m \in 1..MaxCols, n \in 0..MaxRows :
             \E c \in [1..m -> TableNames], p \in [1..n -> Cells \X OtherCells] :
                 raw_df = RawFrame(c, p)
       \/ raw_df = ExampleFrame
    /\ norm1 = NoOutcome
    /\ norm2 = NoOutcome
    /\ AppIdle
    /\ ChartIdle
    /\ UiIdle

\* normalize_df(raw_df)
Normalize ==
    /\ npc = "raw"
    /\ norm1' \in NormalizeDf(raw_df)
    /\ npc' = "once"
    /\ UNCHANGED <<raw_df, norm2, appVars, chartVars, uiVars>>

\* normalize_df on the frame the first call returned
NormalizeAgain ==
    /\ npc = "once"
    /\ norm1.ok
    /\ norm2' \in NormalizeDf(norm1.df)
    /\ npc' = "twice"
    /\ UNCHANGED <<raw_df, norm1, appVars, chartVars, uiVars>>

NextNormalize == Normalize \/ NormalizeAgain

SpecNormalize == InitNormalize /\ [][NextNormalize]_vars

\* ---- SpecFetch: fetch_table called directly

InitFetch ==
    /\ NormalizeIdle
    /\ variant = "fetch_table"
    /\ token_cfg \in Tokens
    /\ warehouse \in Warehouses
    /\ cyc = [c \in Cycles |-> IdleCall]
    /\ conns = {}
    /\ ChartIdle
    /\ UiIdle

NextFetch ==
    \E c \in Cycles :
        \/ \E t \in FetchIdentifiers, s \in PickerValues, e \in PickerValues, h \in Headers :
              CallFetchTable(c, t, s, e, h)
        \/ BuildQuery(c)
        \/ Connect(c)
        \/ ReadSql(c)
        \/ ExitWith(c)
        \/ NormalizeReturn(c)

SpecFetch == InitFetch /\ [][NextFetch]_vars

\* ---- Spec: the dashboard, either variant

Init ==
    /\ NormalizeIdle
    /\ variant \in {"warehouse", "generated"}
    /\ token_cfg \in (IF variant = "warehouse" THEN Tokens ELSE {None})
    /\ warehouse \in (IF variant = "warehouse" THEN Warehouses ELSE {Warehouse({})})
    /\ cyc = [c \in Cycles |-> IdleCall]
    /\ conns = {}
    /\ ChartIdle
    /\ UiIdle

Next ==
    \E c \in Cycles :
        \/ \E s \in PickerValues, e \in PickerValues, h \in Headers :
              UpdateGraphs(c, s, e, h) /\ UNCHANGED uiVars
        \/ BuildQuery(c)
        \/ Connect(c)
        \/ ReadSql(c)
        \/ ExitWith(c)
        \/ NormalizeReturn(c)
        \/ Render(c)
        \/ Except(c)
        \/ \E s \in PickerValues, e \in PickerValues :
              UpdateGraphsGenerated(c, s, e) /\ UNCHANGED uiVars
        \/ Respond(c)

Spec == Init /\ [][Next]_vars

\* ================================================================ Part III
\* The three chart builders, each called with a table and a title.

\* make_graph of the Shiny variant (app-shiny.py lines 25-45): one trace per
\* column, whatever the table holds; the function has no branch for an empty one
MakeGraphShiny(df, title) == Chart(title, FALSE, "", LineSeries(df))

ChartBuilders == {"make_graph_component", "make_graph", "make_graph (shiny)"}

BuildChart(builder, df, title) ==
    CASE builder = "make_graph_component" -> MakeGraphComponent(df, title)
      [] builder = "make_graph"           -> MakeGraph(df, title)
      [] builder = "make_graph (shiny)"   -> MakeGraphShiny(df, title)

\* the column labels and the cells of the tables handed to the builders
ChartLabels == {<<"a">>, <<"b">>, AllHives}
ChartCells  == {"1", "2"}

\* every table of up to MaxCols columns and up to MaxRows rows, indexed by week
\* in ascending order
InitChart ==
    /\ NormalizeIdle
    /\ AppIdle
    /\ UiIdle
    /\ \E b \in ChartBuilders, m \in 0..MaxCols, n \in 0..MaxRows :
          \E cols \in [1..m -> ChartLabels], keys \in [1..n -> 0..MaxRows],
             cells \in [1..n -> [1..m -> ChartCells]] :
              /\ \A i, j \in 1..n : i < j => keys[i] < keys[j]
              /\ chart_in = [builder |-> b,
                             df      |-> Frame(cols, week,
                                               [i \in 1..n |-> [key |-> keys[i], vals |-> cells[i]]]),
                             title   |-> "Gallons"]
    /\ chart_out = NoChart

\* the builder is called
RenderChart ==
    /\ chart_in.builder \in ChartBuilders
    /\ chart_out = NoChart
    /\ chart_out' = BuildChart(chart_in.builder, chart_in.df, chart_in.title)
    /\ UNCHANGED <<chart_in, normalizeVars, appVars, uiVars>>

NextChart == RenderChart

SpecChart == InitChart /\ [][NextChart]_vars


\* ================================================================ Part IV
\* The callbacks of the Dash variants as the browser and the server run them.

\* ---- SpecOverlap: update_graphs of the warehouse variant, two requests at a
\* time (the server handles every request on a thread of its own, and nothing
\* in app.py holds a request back while another is running)

Overlapping == {1, 2}

\* the date pairs and the request headers of the overlapping cycles
OverlapDates == {<<"2024-01-01", "2024-01-05">>, <<None, "2024-01-01">>}

OverlapHeaders == {None, "hdr-token"}

InitOverlap ==
    /\ NormalizeIdle
    /\ ChartIdle
    /\ UiIdle
    /\ variant = "warehouse"
    /\ token_cfg \in {None, "cfg-token"}
    /\ warehouse \in Warehouses
    /\ cyc = [c \in Overlapping |-> IdleCall]
    /\ conns = {}

NextOverlap ==
    \E c \in Overlapping :
        \/ \E d \in OverlapDates, h \in OverlapHeaders :
              UpdateGraphs(c, d[1], d[2], h) /\ UNCHANGED uiVars
        \/ BuildQuery(c)
        \/ Connect(c)
        \/ ReadSql(c)
        \/ ExitWith(c)
        \/ NormalizeReturn(c)
        \/ Render(c)
        \/ Except(c)
        \/ Respond(c)

SpecOverlap == InitOverlap /\ [][NextOverlap]_vars

\* ---- text in a URL
\* The value of a picker or of the query string is text, a sequence of
\* one-character strings; a picker without a date holds NoDate (Python's None).

NoDate == <<None>>

\* the date texts of the model and their characters
TextTable ==
    { <<"2024-01-01", <<"2","0","2","4","-","0","1","-","0","1">> >>,
      <<"2024-01-05", <<"2","0","2","4","-","0","1","-","0","5">> >>,
      <<"2024/01/03", <<"2","0","2","4","/","0","1","/","0","3">> >>,
      <<"2025-05-31", <<"2","0","2","5","-","0","5","-","3","1">> >>,
      <<"None",       <<"N","o","n","e">> >>,
      <<"",           <<>> >>,
      <<None,         NoDate>> }

Chars(s) == (CHOOSE p \in TextTable : p[1] = s)[2]

Text(cs) == (CHOOSE p \in TextTable : p[2] = cs)[1]

\* str(v), as urlencode applies it to a value
Str(v) == IF v = NoDate THEN Chars("None") ELSE v

\* the characters quote_plus leaves alone
Unreserved == Range(UpperCase) \cup Range(LowerCase) \cup Digits \cup {"_", ".", "-", "~"}

\* the two hexadecimal digits of a reserved character
PercentCodes ==
    { <<" ", <<"2","0">> >>, <<"#", <<"2","3">> >>, <<"%", <<"2","5">> >>,
      <<"&", <<"2","6">> >>, <<"+", <<"2","B">> >>, <<"/", <<"2","F">> >>,
      <<":", <<"3","A">> >>, <<"=", <<"3","D">> >>, <<"?", <<"3","F">> >> }

PercentCode(ch) == (CHOOSE p \in PercentCodes : p[1] = ch)[2]

IsPercentCode(h) == \E p \in PercentCodes : p[2] = h

PercentChar(h) == (CHOOSE p \in PercentCodes : p[2] = h)[1]

\* the plausible slip: the query string is put together without quoting
QuoteNothing(s) == s

\* urllib.parse.quote_plus: a space becomes "+", an unreserved character stays,
\* any other becomes "%" and its code
RECURSIVE QuotePlus(_)
QuotePlus(s) ==
    IF s = <<>> THEN <<>>
    ELSE LET ch == Head(s)
         IN  (IF ch = " " THEN <<"+">>
              ELSE IF ch \in Unreserved THEN <<ch>>
              ELSE <<"%">> \o PercentCode(ch)) \o QuotePlus(Tail(s))

\* urllib.parse.unquote after replace("+", " "), as parse_qsl applies them: a
\* "%" followed by a code becomes its character, any other "%" stays
RECURSIVE UnquotePlus(_)
UnquotePlus(s) ==
    IF s = <<>> THEN <<>>
    ELSE IF Head(s) = "+" THEN <<" ">> \o UnquotePlus(Tail(s))
    ELSE IF Head(s) = "%" /\ Len(s) >= 3 /\ IsPercentCode(<<s[2], s[3]>>)
    THEN <<PercentChar(<<s[2], s[3]>>)>> \o UnquotePlus(SubSeq(s, 4, Len(s)))
    ELSE <<Head(s)>> \o UnquotePlus(Tail(s))

\* str.lstrip(ch)
RECURSIVE LStrip(_, _)
LStrip(s, ch) == IF s # <<>> /\ Head(s) = ch THEN LStrip(Tail(s), ch) ELSE s

\* the position of the first ch in s, or 0
Find(s, ch) ==
    IF \E i \in 1..Len(s) : s[i] = ch
    THEN CHOOSE i \in 1..Len(s) : s[i] = ch /\ \A j \in 1..(i - 1) : s[j] # ch
    ELSE 0

\* str.split(sep)
RECURSIVE Split(_, _)
Split(s, sep) ==
    LET i == Find(s, sep)
    IN  IF i = 0 THEN <<s>>
        ELSE <<SubSeq(s, 1, i - 1)>> \o Split(SubSeq(s, i + 1, Len(s)), sep)

\* "&".join(parts)
RECURSIVE Join(_)
Join(parts) ==
    IF parts = <<>> THEN <<>>
    ELSE IF Len(parts) = 1 THEN parts[1]
    ELSE parts[1] \o <<"&">> \o Join(Tail(parts))

\* urllib.parse.urlencode of a dict, given as its items in order
UrlEncode(items) ==
    Join([i \in 1..Len(items) |->
             QuotePlus(items[i][1]) \o <<"=">> \o QuotePlus(Str(items[i][2]))])

\* urllib.parse.parse_qsl with its defaults: the fields between "&", each split
\* at its first "="; a field without "=" or with a blank value is dropped
ParseQsl(qs) ==
    LET fields  == Split(qs, "&")
        Keeps(x) == Find(x, "=") # 0 /\ Find(x, "=") < Len(x)
        kept    == SelectSeq(fields, Keeps)
    IN  [i \in 1..Len(kept) |->
            LET eq == Find(kept[i], "=")
            IN  <<UnquotePlus(SubSeq(kept[i], 1, eq - 1)),
                  UnquotePlus(SubSeq(kept[i], eq + 1, Len(kept[i])))>>]

\* parse_qs(qs).get(key, [default])[0]: the first value of the key
FirstValue(pairs, key, default) ==
    IF \E i \in 1..Len(pairs) : pairs[i][1] = key
    THEN pairs[CHOOSE i \in 1..Len(pairs) :
                   pairs[i][1] = key /\ \A j \in 1..(i - 1) : pairs[j][1] # key][2]
    ELSE default

start_key == <<"s","t","a","r","t">>
end_key   == <<"e","n","d">>

\* update_url_params (n_clicks is not used)
update_url_params(start_date, end_date) ==
    <<"?">> \o UrlEncode(<< <<start_key, start_date>>, <<end_key, end_date>> >>)

\* sync_dates_from_url
sync_dates_from_url(search) ==
    IF search = NoDate \/ search = <<>>
    THEN <<Chars(default_start), Chars(default_end)>>
    ELSE LET params == ParseQsl(LStrip(search, "?"))
         IN  <<FirstValue(params, start_key, Chars(default_start)),
               FirstValue(params, end_key, Chars(default_end))>>

\* ---- the callback graph

CallbackNames == {"update_url_params", "sync_dates_from_url", "update_graphs"}

\* the plausible slip: the pickers declared Input of update_url_params
CallbackInputsPickersToo(cb) ==
    CASE cb = "update_url_params" ->
             {"update-button.n_clicks", "start-date-picker.date", "end-date-picker.date"}
      [] cb = "sync_dates_from_url" -> {"url.search"}
      [] cb = "update_graphs" ->
             {"start-date-picker.date", "end-date-picker.date"}
             \cup (IF variant = "warehouse" THEN {"interval-loader.n_intervals"} ELSE {})

\* the Input properties of a callback: a change of one of them makes the
\* browser request the callback (State properties are read, never watched)
CallbackInputs(cb) ==
    CASE cb = "update_url_params"   -> {"update-button.n_clicks"}
      [] cb = "sync_dates_from_url" -> {"url.search"}
      [] cb = "update_graphs" ->
             {"start-date-picker.date", "end-date-picker.date"}
             \cup (IF variant = "warehouse" THEN {"interval-loader.n_intervals"} ELSE {})

\* the Output properties of a callback
CallbackOutputs(cb) ==
    CASE cb = "update_url_params"   -> {"url.search"}
      [] cb = "sync_dates_from_url" -> {"start-date-picker.date", "end-date-picker.date"}
      [] cb = "update_graphs"       -> {"graphs-container.children"}

\* the callbacks a write to the properties props sets off
Triggered(props) == {cb \in CallbackNames : CallbackInputs(cb) \cap props # {}}

\* nothing is left to do: no callback waits and no request is being served
AtRest == pending = {} /\ \A c \in DOMAIN cyc : cyc[c].pc = "idle"

PageEvent(event) == [event |-> event, at_rest |-> AtRest]

\* the browser requests callback cb; its outputs set off the callbacks that
\* watch them
Requested(cb) ==
    /\ cb \in pending
    /\ Len(chain) < MaxChain
    /\ pending' = (pending \ {cb}) \cup Triggered(CallbackOutputs(cb))
    /\ chain' = Append(chain, cb)
    /\ origin' = origin

\* ---- the user and the timer

\* a click on the Update button
Click ==
    /\ variant \in {"warehouse", "generated"}
    /\ pending' = pending \cup Triggered({"update-button.n_clicks"})
    /\ chain' = <<>>
    /\ origin' = PageEvent("click")
    /\ UNCHANGED <<url_search, start_picker, end_picker, normalizeVars, chartVars, appVars>>

\* the user picks another start date
PickStart(d) ==
    /\ variant \in {"warehouse", "generated"}
    /\ d # start_picker
    /\ start_picker' = d
    /\ pending' = pending \cup Triggered({"start-date-picker.date"})
    /\ chain' = <<>>
    /\ origin' = PageEvent("pick")
    /\ UNCHANGED <<url_search, end_picker, normalizeVars, chartVars, appVars>>

\* the user picks another end date
PickEnd(d) ==
    /\ variant \in {"warehouse", "generated"}
    /\ d # end_picker
    /\ end_picker' = d
    /\ pending' = pending \cup Triggered({"end-date-picker.date"})
    /\ chain' = <<>>
    /\ origin' = PageEvent("pick")
    /\ UNCHANGED <<url_search, start_picker, normalizeVars, chartVars, appVars>>

\* dcc.Interval counts one more interval (the synthetic variant has no Interval)
Tick ==
    /\ variant = "warehouse"
    /\ pending' = pending \cup Triggered({"interval-loader.n_intervals"})
    /\ chain' = <<>>
    /\ origin' = PageEvent("tick")
    /\ UNCHANGED <<url_search, start_picker, end_picker, normalizeVars, chartVars, appVars>>

\* ---- the callbacks

\* update_url_params runs on the two picker dates and its result is written to
\* url.search
UpdateUrlParams ==
    /\ Requested("update_url_params")
    /\ url_search' = update_url_params(start_picker, end_picker)
    /\ UNCHANGED <<start_picker, end_picker, normalizeVars, chartVars, appVars>>

\* sync_dates_from_url runs on url.search and its result is written to the two
\* pickers
SyncDatesFromUrl ==
    /\ Requested("sync_dates_from_url")
    /\ start_picker' = sync_dates_from_url(url_search)[1]
    /\ end_picker' = sync_dates_from_url(url_search)[2]
    /\ UNCHANGED <<url_search, normalizeVars, chartVars, appVars>>

\* update_graphs is requested with the two picker dates (and the tick count, which
\* it ignores) and starts on the server
RequestUpdateGraphs(c, header) ==
    /\ Requested("update_graphs")
    /\ IF variant = "warehouse"
       THEN UpdateGraphs(c, Text(start_picker), Text(end_picker), header)
       ELSE UpdateGraphsGenerated(c, Text(start_picker), Text(end_picker))
    /\ UNCHANGED <<url_search, start_picker, end_picker>>

\* ---- SpecUrl: the date range through the URL and back, and pages opened on a
\* link

UrlChars == {"2", "F", "-", "/", " ", "+", "&", "=", "%", "?"}

\* the texts of up to MaxTextLen characters
UrlTexts == UNION {[1..n -> UrlChars] : n \in 0..MaxTextLen}

OtherDates == {Chars("2025-05-31"), Chars("2024/01/03"), NoDate}

\* the fields of a link: a key and a value as they stand in the query string
LinkKeys   == {start_key, end_key, <<"x">>}
LinkValues == {Chars("2024-01-05"), Chars("2025-05-31"), <<>>}
LinkFields == {<<>>} \cup {k \o <<"=">> \o v : k \in LinkKeys, v \in LinkValues} \cup {start_key}

\* the query strings a page is opened on: nothing at all, or up to two fields,
\* with or without the leading "?"
Links ==
    {<<>>} \cup
    {q \o Join(fs) : q \in {<<>>, <<"?">>, <<"?", "?">>},
                     fs \in UNION {[1..n -> LinkFields] : n \in 1..2}}

\* a page whose Update button has just been clicked, or a page just opened on a
\* link, its pickers as the layout sets them
InitUrl ==
    /\ NormalizeIdle
    /\ ChartIdle
    /\ variant \in {"warehouse", "generated"}
    /\ token_cfg = None
    /\ warehouse = Warehouse({})
    /\ cyc = [c \in Cycles |-> IdleCall]
    /\ conns = {}
    /\ chain = <<>>
    /\ \/ /\ url_search = <<>>
          /\ \E t \in UrlTexts, d \in OtherDates :
                \/ start_picker = t /\ end_picker = d
                \/ start_picker = d /\ end_picker = t
          /\ pending = {"update_url_params"}
          /\ origin = [event |-> "click", at_rest |-> TRUE, start |-> start_picker,
                       end |-> end_picker, search |-> url_search]
       \/ /\ url_search \in Links
          /\ start_picker = Chars(default_start)
          /\ end_picker = Chars(default_end)
          /\ pending = {"sync_dates_from_url"}
          /\ origin = [event |-> "open", at_rest |-> TRUE, start |-> start_picker,
                       end |-> end_picker, search |-> url_search]

NextUrl == UpdateUrlParams \/ SyncDatesFromUrl

SpecUrl == InitUrl /\ [][NextUrl]_vars

\* ---- SpecUI: the page of either Dash variant, from the moment it is opened

\* the dates the user picks, the links the page is opened on, and the header of
\* its requests
UiStarts  == {Chars("2024-01-05")}
UiEnds    == {NoDate}
UiLinks   == {<<>>, update_url_params(Chars("2024-01-01"), Chars("2024-01-05"))}
UiHeaders == {"hdr-token"}

\* the page is opened: the pickers as the layout sets them, and the initial call
\* of sync_dates_from_url waiting (update_graphs watches its outputs and is
\* called once they are there; update_url_params has prevent_initial_call)
InitUI ==
    /\ NormalizeIdle
    /\ ChartIdle
    /\ variant \in {"warehouse", "generated"}
    /\ token_cfg = None
    /\ warehouse = Warehouse({})
    /\ cyc = [c \in Cycles |-> IdleCall]
    /\ conns = {}
    /\ url_search \in UiLinks
    /\ start_picker = Chars(default_start)
    /\ end_picker = Chars(default_end)
    /\ pending = {"sync_dates_from_url"}
    /\ chain = <<>>
    /\ origin = [event |-> "open", at_rest |-> TRUE]

NextUI ==
    \/ Click
    \/ \E d \in UiStarts : PickStart(d)
    \/ \E d \in UiEnds : PickEnd(d)
    \/ Tick
    \/ UpdateUrlParams
    \/ SyncDatesFromUrl
    \/ \E c \in Cycles :
          \/ \E h \in UiHeaders : RequestUpdateGraphs(c, h)
          \/ BuildQuery(c)
          \/ Connect(c)
          \/ ReadSql(c)
          \/ ExitWith(c)
          \/ NormalizeReturn(c)
          \/ Render(c)
          \/ Except(c)
          \/ Respond(c)

SpecUI == InitUI /\ [][NextUI]_vars

\* --------------------------------------------------------- Part I claims

Distinct(s) == \A i, j \in 1..Len(s) : i # j => s[i] # s[j]

Normalized == npc \in {"once", "twice"}

HasWeekAfterRenaming(df) == week \in Range(RenameColumns(df).columns)

\* C1: after normalize_df every column name consists of characters of
\* [A-Za-z0-9_] only and has no upper-case letter (also in the frame a failed
\* call leaves behind, whose columns were already rewritten).
C1_ColumnNamesCanonical ==
    Normalized =>
        \A i \in 1..Len(norm1.df.columns) :
            \A c \in Range(norm1.df.columns[i]) :
                IsWordChar(c) /\ c \notin Range(UpperCase)

\* a raw name with upper-case letters, a hyphen and a bang went through
C1_Witness ==
    /\ npc = "once"
    /\ norm1.ok
    /\ \E i \in 1..Len(raw_df.columns) :
          /\ \E c \in Range(raw_df.columns[i]) : c \in Range(UpperCase)
          /\ \E c \in Range(raw_df.columns[i]) : ~IsWordChar(c)
          /\ Len(RenameColumn(raw_df.columns[i])) > 0

\* C2: normalize_df is idempotent: applied to the frame it returned, it returns
\* that frame again: same column names, same row keys, same row order.
C2_Idempotent ==
    npc = "twice" => norm2.ok /\ norm2.df = norm1.df

\* the second call ran on a frame the first call renamed, re-keyed and re-ordered
C2_Witness ==
    /\ npc = "twice"
    /\ norm1.df.index_name = week
    /\ norm1.df.columns # <<>>
    /\ Len(norm1.df.rows) = 2
    /\ norm1.df.rows[1].key < norm1.df.rows[2].key
    /\ ToDatetime(raw_df.rows[1].vals[1]) > ToDatetime(raw_df.rows[2].vals[1])

\* C3: when a column is named `week` after the renaming and normalize_df
\* returns, the rows are sorted non-decreasing by the row key, the row key is
\* the parsed week, and no value column is named `week`.
C3_WeekPromotedAndSorted ==
    (Normalized /\ norm1.ok /\ HasWeekAfterRenaming(raw_df)) =>
        /\ IsSortedByKey(norm1.df.rows)
        /\ norm1.df.index_name = week
        /\ week \notin Range(norm1.df.columns)
        /\ Len(norm1.df.rows) = Len(raw_df.rows)
        /\ \A i \in 1..Len(norm1.df.rows) :
              \E k \in 1..Len(raw_df.rows), j \in 1..Len(raw_df.columns) :
                  /\ RenameColumn(raw_df.columns[j]) = week
                  /\ norm1.df.rows[i].key = ToDatetime(raw_df.rows[k].vals[j])

\* a raw frame whose week column is spelled " Week " and whose rows were out of
\* order
C3_Witness ==
    /\ npc = "once"
    /\ norm1.ok
    /\ raw_df.columns[1] = <<" ","W","e","e","k"," ">>
    /\ Len(raw_df.rows) = 2
    /\ raw_df.rows[1].vals[1] = "2024-01-02"
    /\ raw_df.rows[2].vals[1] = "2024-01-01"

\* C4 (as claimed): pairwise distinct raw column names stay pairwise distinct.
\* normalize_df maps "a b" and "a_b" to the same name and removes no duplicate.
C4_DistinctNamesStayDistinct ==
    (Normalized /\ Distinct(raw_df.columns)) => Distinct(norm1.df.columns)

\* the name a raw column name is rewritten to, stated position by position:
\* between the first and the last non-whitespace character, a space becomes an
\* underscore, a word character is kept lower-cased, anything else is dropped
ExpectedName(s) ==
    LET body == {i \in 1..Len(s) : ~IsWhitespace(s[i])}
        kept == {i \in 1..Len(s) :
                    /\ \E a \in body : a <= i
                    /\ \E b \in body : i <= b
                    /\ (s[i] = " " \/ IsWordChar(s[i]))}
        at(k) == CHOOSE i \in kept : Cardinality({j \in kept : j <= i}) = k
    IN  [k \in 1..Cardinality(kept) |->
            IF s[at(k)] = " " THEN "_" ELSE LowerChar(s[at(k)])]

IsNotWeek(name) == name # week

\* C5: every column name is rewritten by lower-casing, then stripping, then
\* replacing each remaining space by an underscore, then deleting every
\* character outside [A-Za-z0-9_]; [" Week ", "All Hives", "Retail-Minus!"]
\* become week (promoted to the row key), all_hives and retailminus.
C5_RenameChain ==
    Normalized =>
        LET exp == [i \in 1..Len(raw_df.columns) |-> ExpectedName(raw_df.columns[i])]
        IN  /\ norm1.df.columns =
                  IF norm1.ok /\ norm1.df.index_name = week
                  THEN SelectSeq(exp, IsNotWeek) ELSE exp
            /\ raw_df = ExampleFrame =>
                  /\ norm1.ok
                  /\ norm1.df.index_name = <<"w","e","e","k">>
                  /\ norm1.df.columns =
                        << <<"a","l","l","_","h","i","v","e","s">>,
                           <<"r","e","t","a","i","l","m","i","n","u","s">> >>

\* the documented example was normalized
C5_Witness ==
    npc = "once" /\ raw_df = ExampleFrame /\ norm1.ok

\* -------------------------------------------------------- Part II claims

Owned(c) == {x \in conns : x.owner = c}

Finished(c) == cyc[c].pc = "done" /\ cyc[c].caller = "update_graphs"

\* the dates of the cycle are dates, and no row can fall into their range: in
\* the warehouse variant no stored week lies between them, in the synthetic
\* variant no Sunday does (both cover start > end)
EmptyRange(c) ==
    LET s == ToDatetime(cyc[c].start_date)
        e == ToDatetime(cyc[c].end_date)
    IN  /\ s # NaT
        /\ e # NaT
        /\ IF variant = "warehouse"
           THEN \A t \in DOMAIN warehouse :
                   \A i \in 1..Len(warehouse[t].rows) :
                       ~(s <= warehouse[t].rows[i].day /\ warehouse[t].rows[i].day <= e)
           ELSE \A d \in s..e : d % 7 # Sunday

SixPlaceholders(c) ==
    /\ cyc[c].out.kind = "graphs"
    /\ Len(cyc[c].out.charts) = 6
    /\ Len(cyc[c].dfs) = 6
    /\ \A i \in 1..6 :
          /\ Len(cyc[c].dfs[i].rows) = 0
          /\ cyc[c].out.charts[i].placeholder
          /\ cyc[c].out.charts[i].series = <<>>

C7_IllegalIdentifierRejected ==
    \A c \in Cycles :
        (\E ch \in Range(cyc[c].table_name) : ~IsWordChar(ch)) =>
            /\ cyc[c].query = NoQuery
            /\ cyc[c].printed = <<>>
            /\ cyc[c].sent = <<>>

\* C8: a connection is open only between connect_to_warehouse and the end of
\* the with block: once fetch_table has returned or raised, the connection it
\* acquired is closed.
C8_ConnectionClosed ==
    \A c \in Cycles :
        /\ cyc[c].pc \notin {"read", "exit"} => Owned(c) = {}
        /\ cyc[c].pc \in {"read", "exit"} => Cardinality(Owned(c)) = 1

\* fetch_table acquired a connection, the read raised, and the call has ended
C8_Witness ==
    \E c \in Cycles :
        /\ cyc[c].pc = "raised"
        /\ cyc[c].acquired = 1
        /\ cyc[c].exc = "QueryError"

\* C9: a connection is opened with the request header's token when that is
\* present and non-empty, with the configured token only when the header is
\* absent or empty, and with no token never: when both are absent the call
\* raises "No user token found" and has opened no connection.
C9_CredentialPriority ==
    \A c \in Cycles :
        LET f      == cyc[c]
            hdr    == f.header # None /\ f.header # ""
            cfg    == token_cfg # None /\ token_cfg # ""
            expect == IF hdr THEN f.header ELSE token_cfg
        IN  /\ \A x \in Owned(c) : x.token = expect
            /\ \A i \in 1..Len(f.tokens) : f.tokens[i] = expect
            /\ f.acquired > 0 => (hdr \/ cfg)
            /\ f.pc \in {"read", "exit", "normalize", "returned"} => f.acquired = 1
            /\ (f.pc = "raised" /\ f.exc = "No user token found") =>
                  ~hdr /\ ~cfg /\ f.acquired = 0 /\ f.tokens = <<>> /\ f.sent = <<>>
            /\ (~hdr /\ ~cfg /\ f.pc = "raised" /\ f.printed # <<>>) =>
                  f.exc = "No user token found"

\* a connection is open under the header's token although a configured token
\* exists
C9_Witness ==
    \E c \in Cycles :
        /\ token_cfg = "cfg-token"
        /\ cyc[c].header = "hdr-token"
        /\ \E x \in Owned(c) : x.token = "hdr-token"

\* C10: update_graphs never ends unhandled: a cycle in which a fetch, the
\* normalization or a date conversion raised ends with the error banner, made of
\* that one exception's message, as the callback's output; any other cycle ends
\* with the six charts.
C10_FailuresBecomeBanner ==
    \A c \in Cycles :
        /\ cyc[c].pc # "crashed"
        /\ ~(cyc[c].pc = "raised" /\ cyc[c].caller = "update_graphs"
                /\ ~InTry(cyc[c].exc_line))
        /\ Finished(c) =>
              \/ /\ cyc[c].exc = ""
                 /\ cyc[c].out.kind = "graphs"
                 /\ Len(cyc[c].out.charts) = 6
              \/ /\ cyc[c].exc # ""
                 /\ cyc[c].out.kind = "error"
                 /\ cyc[c].out.charts = <<>>
                 /\ Len(cyc[c].out.msg) = 2
                 /\ cyc[c].out.msg[2] = cyc[c].exc

\* the fourth fetch returned a week that is no date, and the cycle ended with
\* the banner
C10_Witness ==
    \E c \in Cycles :
        /\ variant = "warehouse"
        /\ Finished(c)
        /\ cyc[c].k = 4
        /\ cyc[c].exc = "DateParseError"
        /\ Len(cyc[c].sent) = 4
        /\ cyc[c].out.kind = "error"

\* ------------------------------------------------------- Part III claims

ChartBuilt == chart_out # NoChart

\* C11: every chart builder returns, for a table of zero rows, the placeholder
\* (the title, the annotation "No data for selected date range", no series),
\* and for a table of n >= 1 rows and m columns exactly m line series of n
\* points each, labelled with the column labels in order.
C11_ChartBuilderContract ==
    ChartBuilt =>
        LET df == chart_in.df
            n  == Len(df.rows)
            m  == Len(df.columns)
        IN  /\ chart_out.title = chart_in.title
            /\ n = 0 => /\ chart_out.placeholder
                        /\ chart_out.annotation = "No data for selected date range"
                        /\ chart_out.series = <<>>
            /\ n >= 1 => /\ Len(chart_out.series) = m
                         /\ \A j \in 1..m :
                               /\ chart_out.series[j].name = df.columns[j]
                               /\ Len(chart_out.series[j].x) = n
                               /\ Len(chart_out.series[j].y) = n

\* the same contract for the two Dash builders alone
DashBuildersKeepContract ==
    chart_in.builder \in {"make_graph_component", "make_graph"} => C11_ChartBuilderContract

\* --------------------------------------------------- the order of the fetches

PanelOrder == [i \in 1..Len(Panels) |-> Panels[i].table]

QueryTables(qs) == [i \in 1..Len(qs) |-> qs[i].table]

IsPrefix(s, t) == Len(s) <= Len(t) /\ \A i \in 1..Len(s) : s[i] = t[i]

InCycle(c) == cyc[c].caller = "update_graphs" /\ variant = "warehouse"

Fetching(c) == cyc[c].pc \in {"query", "connect", "read", "exit", "normalize"}

\* C13: within one cycle of the warehouse variant the six tables are fetched
\* one after the other in the order gallons, net_margin, market_pricing,
\* transactions, margin_components, market_price_delta, a fetch being over
\* before the next begins; after the first failure no table is fetched again
\* and none after it, and the banner stands in place of all six panels.
C13_SequentialFetchFailFast ==
    \A c \in Cycles :
        InCycle(c) =>
            LET f == cyc[c]
            IN  \* in order, none twice, none skipped
                /\ IsPrefix(QueryTables(f.printed), PanelOrder)
                /\ IsPrefix(f.sent, f.printed)
                /\ f.k \in 1..Len(Panels)
                /\ Len(f.printed) \in {f.k - 1, f.k}
                /\ Len(f.sent) \in {f.k - 1, f.k}
                \* a fetch is over before the next begins
                /\ Fetching(c) => /\ Len(f.dfs) = f.k - 1
                                  /\ f.table_name = PanelOrder[f.k]
                /\ \A x \in Owned(c) : x.k = f.k /\ f.pc \in {"read", "exit"}
                /\ Cardinality(Owned(c)) <= 1
                \* the first failure ends the fetching
                /\ f.exc # "" => /\ f.pc \in {"exit", "raised", "done"}
                                 /\ Len(f.dfs) = f.k - 1
                /\ (f.pc = "done" /\ f.exc # "") =>
                        /\ f.out = ErrorBanner("Error loading data: ", f.exc)
                        /\ f.out.charts = <<>>
                /\ (f.pc = "done" /\ f.exc = "") =>
                        /\ f.out.kind = "graphs"
                        /\ QueryTables(f.sent) = PanelOrder
                        /\ Len(f.dfs) = Len(Panels)

\* a cycle whose fourth fetch failed after three had returned, and ended in the
\* banner
C13_Witness ==
    \E c \in Cycles :
        /\ InCycle(c)
        /\ cyc[c].pc = "done"
        /\ cyc[c].exc # ""
        /\ cyc[c].k = 4
        /\ Len(cyc[c].dfs) = 3
        /\ QueryTables(cyc[c].sent) = SubSeq(PanelOrder, 1, 4)

\* -------------------------------------------------------- Part IV claims

\* the date a cycle works with, from the date it was handed
Defaulted(v, d) == IF Falsy(v) THEN d ELSE v

\* the frames fetch_table can return for panel i when the stored tables are wh
\* and the dates are s and e: what the warehouse answers, normalized
FramesFor(wh, i, s, e) ==
    LET q == Query(Panels[i].table, StrfTime(ToDatetime(s)), StrfTime(ToDatetime(e)))
    IN  {r.df : r \in {o \in UNION {NormalizeDf(d) : d \in ExecuteQuery(wh, q)} : o.ok}}

\* the date pairs the overlapping cycles work with
OverlapRanges ==
    {<<Defaulted(d[1], default_start), Defaulted(d[2], default_end)>> : d \in OverlapDates}

FramesTable ==
    [wh \in Warehouses |->
        [r \in OverlapRanges |->
            [i \in 1..Len(Panels) |-> FramesFor(wh, i, r[1], r[2])]]]

\* the same for a cycle with frame f, from the dates of f and the stored tables
\* alone
OwnFrames(f, i) == FramesTable[warehouse][<<f.start_date, f.end_date>>][i]

InWithBlock(c) == cyc[c].pc \in {"read", "exit"}

\* C14: refresh cycles that overlap do not touch each other: a cycle starts
\* while another is in flight, every fetch works on a connection of its own that
\* is open exactly while that fetch is inside its with block, and the dates,
\* credential, queries, frames and output of a cycle are those that its own
\* (start, end), its own request and the stored tables determine.
C14_CyclesIndependent ==
    /\ \A x \in conns : x.owner \in DOMAIN cyc /\ InWithBlock(x.owner)
    /\ \A c \in DOMAIN cyc :
          cyc[c].caller = "update_graphs" =>
              LET f     == cyc[c]
                  token == UserToken(f.header, token_cfg)
              IN  /\ f.start_date = Defaulted(f.args[1], default_start)
                  /\ f.end_date = Defaulted(f.args[2], default_end)
                  /\ <<f.start_date, f.end_date>> \in OverlapRanges
                  /\ InWithBlock(c) <=> Owned(c) # {}
                  /\ InWithBlock(c) => Owned(c) = {[owner |-> c, k |-> f.k, token |-> token]}
                  /\ \A i \in 1..Len(f.tokens) : f.tokens[i] = token
                  /\ \A i \in 1..Len(f.printed) :
                        f.printed[i] = Query(Panels[i].table,
                                             StrfTime(ToDatetime(f.start_date)),
                                             StrfTime(ToDatetime(f.end_date)))
                  /\ \A i \in 1..Len(f.dfs) : f.dfs[i] \in OwnFrames(f, i)
                  /\ f.exc = "No user token found" => Falsy(token)
                  /\ f.pc = "done" =>
                        IF f.exc # ""
                        THEN f.out = ErrorBanner("Error loading data: ", f.exc)
                        ELSE /\ f.out.kind = "graphs"
                             /\ \A i \in 1..Len(Panels) :
                                   f.out.charts[i] \in
                                      {MakeGraphComponent(d, Panels[i].title) : d \in OwnFrames(f, i)}

\* two cycles with different dates and different credentials inside a with
\* block at the same time, at different panels
C14_Witness ==
    /\ DOMAIN cyc = Overlapping
    /\ InWithBlock(1) /\ InWithBlock(2)
    /\ cyc[1].args # cyc[2].args
    /\ cyc[1].k # cyc[2].k
    /\ Cardinality(conns) = 2
    /\ \E x, y \in conns : x.token # y.token

\* a picker value that is a date text: not None and not empty
IsDateText(v) == v # NoDate /\ v # <<>>

\* the value a link gives for a key: the value of its first field `key=value`
\* with a value, or the default
LinkValue(fs, key, default) ==
    LET Hit(i) == \E v \in LinkValues \ {<<>>} : fs[i] = key \o <<"=">> \o v
    IN  IF \E i \in 1..Len(fs) : Hit(i)
        THEN LET i == CHOOSE k \in 1..Len(fs) : Hit(k) /\ \A j \in 1..(k - 1) : ~Hit(j)
             IN  SubSeq(fs[i], Len(key) + 2, Len(fs[i]))
        ELSE default

\* C12: the date range comes back from the URL as it went in:
\* sync_dates_from_url(update_url_params(_, start, end)) = (start, end) for
\* picker dates start and end; and for a query string that is empty or lacks a
\* key, sync_dates_from_url gives 2024-01-01 for a missing start and 2025-05-31
\* for a missing end, each on its own.
C12_UrlRoundTrip ==
    /\ (origin.event = "click" /\ chain = <<"update_url_params", "sync_dates_from_url">>) =>
          /\ url_search = update_url_params(origin.start, origin.end)
          /\ Head(url_search) = "?"
          /\ IsDateText(origin.start) => start_picker = origin.start
          /\ IsDateText(origin.end) => end_picker = origin.end
    /\ (origin.event = "open" /\ chain = <<"sync_dates_from_url">>) =>
          /\ origin.search = <<>> =>
                /\ start_picker = <<"2","0","2","4","-","0","1","-","0","1">>
                /\ end_picker = <<"2","0","2","5","-","0","5","-","3","1">>
          /\ \A q \in {<<>>, <<"?">>, <<"?", "?">>}, n \in 1..2 :
                \A fs \in [1..n -> LinkFields] :
                    origin.search = q \o Join(fs) =>
                        /\ start_picker =
                              LinkValue(fs, start_key, <<"2","0","2","4","-","0","1","-","0","1">>)
                        /\ end_picker =
                              LinkValue(fs, end_key, <<"2","0","2","5","-","0","5","-","3","1">>)

\* a start date with characters that the query string has to quote went through
\* the URL and came back, next to a written-out end date
C12_Witness ==
    /\ origin.event = "click"
    /\ chain = <<"update_url_params", "sync_dates_from_url">>
    /\ origin.start = <<"&", "+">>
    /\ origin.end = <<"2","0","2","4","/","0","1","/","0","3">>
    /\ start_picker = origin.start
    /\ end_picker = origin.end
    /\ \E i \in 1..Len(url_search) : url_search[i] = "%"

\* --------------------------------------------------- the callback graph

ClickChain == <<"update_url_params", "sync_dates_from_url", "update_graphs">>

\* what is left of a chain after the callbacks in done: its next callback
\* waiting, or nothing
Remaining(full, done) == IF Len(done) < Len(full) THEN {full[Len(done) + 1]} ELSE {}

\* the callbacks still to come, counted with everything each can set off
Rank(p) ==
    (IF "update_url_params" \in p THEN 3 ELSE 0)
    + (IF "sync_dates_from_url" \in p THEN 2 ELSE 0)
    + (IF "update_graphs" \in p THEN 1 ELSE 0)

\* after an event that found the page at rest: a click is followed by the URL
\* write, the picker sync and the graph update, in that order and once each; a
\* picked date or a tick by the graph update alone; the opening of the page by
\* the picker sync and the graph update; and then no callback waits
ChainAfterEvent ==
    /\ (origin.event = "click" /\ origin.at_rest) =>
          /\ IsPrefix(chain, ClickChain)
          /\ pending = Remaining(ClickChain, chain)
    /\ (origin.event \in {"pick", "tick"} /\ origin.at_rest) =>
          /\ IsPrefix(chain, <<"update_graphs">>)
          /\ pending = Remaining(<<"update_graphs">>, chain)
    /\ origin.event = "open" =>
          /\ IsPrefix(chain, <<"sync_dates_from_url", "update_graphs">>)
          /\ pending = Remaining(<<"sync_dates_from_url", "update_graphs">>, chain)
    /\ Len(chain) = MaxChain => pending = {}

\* in every step: the URL is written by update_url_params alone, which only a
\* click makes the browser request; and a callback leaves less to come than
\* there was
NoFeedbackStep ==
    /\ url_search' # url_search =>
          /\ "update_url_params" \in pending
          /\ chain' = Append(chain, "update_url_params")
    /\ ("update_url_params" \in pending' /\ "update_url_params" \notin pending) =>
          /\ origin'.event = "click"
          /\ chain' = <<>>
          /\ url_search' = url_search
    /\ (\E cb \in CallbackNames : chain' = Append(chain, cb)) =>
          Rank(pending') < Rank(pending)

\* C15: the callback graph has no feedback loop: only a click on the Update
\* button leads to a write of the URL query string (a picked date or a timer
\* tick leaves it as it is), and one click sets off the URL write, the picker
\* sync and the graph update, once each, after which nothing waits until the
\* next user action or tick.
C15_NoFeedbackLoop == []ChainAfterEvent /\ [][NoFeedbackStep]_vars

\* a click on a page at rest has run its whole chain in the warehouse variant:
\* the URL is written, the cycle it set off is over, and the page is at rest
C15_Witness ==
    /\ variant = "warehouse"
    /\ origin.event = "click"
    /\ origin.at_rest
    /\ chain = ClickChain
    /\ url_search = update_url_params(start_picker, end_picker)
    /\ url_search \notin UiLinks
    /\ AtRest

====
